---- MODULE Spec2Model ----
(***************************************************************************)
(* Model of MateSolver (src/unnamed/part_000): evaluate_position,          *)
(* ordered_moves, minimax_alpha_beta_search and get_mate_sequence, run on  *)
(* an abstract rules engine.  The rules engine (python-chess) is external: *)
(* a position is an identifier, and the engine's answers (side to move,    *)
(* checkmate, stalemate, game over, check, capture, material, legal moves  *)
(* in native order) are read from a table of positions.  A move is named   *)
(* by the position it leads to.                                            *)
(***************************************************************************)
EXTENDS Integers, Sequences, FiniteSets, TLC

VARIABLES board, temp_board, search_depth, MAX_NODES, nodes_searched,
          mode, ref, call, stack, ret, sequence, move_num,
          configured, evals, prev, tally

vars == <<board, temp_board, search_depth, MAX_NODES, nodes_searched,
          mode, ref, call, stack, ret, sequence, move_num,
          configured, evals, prev, tally>>

-----------------------------------------------------------------------------
(* Bounds of the model *)

MaxDepth == 4

SmallBudget == 3

-----------------------------------------------------------------------------
(* Program constants *)

MATE_SCORE == 100000

STALEMATE_SCORE == 0

DefaultSearchDepth == 4

DefaultMaxNodes == 200000

Inf == 1000000000

CheckBonus == 10000

CaptureBonus == 5000

WHITE == TRUE

BLACK == FALSE

NoMove == 0

-----------------------------------------------------------------------------
(* The rules engine: a table of positions.                                 *)
(* kind: "play" (game goes on), "mate" (side to move is checkmated),       *)
(* "stale" (side to move is stalemated), "draw" (game over by another      *)
(* rule: insufficient material, seventy-five moves; legal moves remain).   *)
(* mat: material balance of the pieces on the board (White minus Black).   *)
(* chk: the side to move is in check.  cap: the move that reaches this     *)
(* position is a capture.  kids: legal moves in native enumeration order.  *)

SinkBase == 1000

MatOffset == 20

Q(turn, mat) == SinkBase + 2 * ((mat \div 100) + MatOffset) + (IF turn = WHITE THEN 0 ELSE 1)

P(turn, kind, mat, chk, cap, kids) == [turn |-> turn, kind |-> kind, mat |-> mat, chk |-> chk, cap |-> cap, kids |-> kids]

Base ==
  << \* --- 1..9: mate in one among a check, a capture and a quiet move
     P(WHITE, "play", 0, FALSE, FALSE, <<2, 3, 4, 5>>),
     P(BLACK, "play", 0, FALSE, FALSE, <<6, 7>>),
     P(BLACK, "play", 0, TRUE, FALSE, <<8>>),
     P(BLACK, "mate", 0, TRUE, FALSE, <<>>),
     P(BLACK, "play", 500, FALSE, TRUE, <<9>>),
     P(WHITE, "play", 0, FALSE, FALSE, <<Q(BLACK, 0)>>),
     P(WHITE, "play", -500, FALSE, TRUE, <<Q(BLACK, -500)>>),
     P(WHITE, "play", 0, FALSE, FALSE, <<Q(BLACK, 0)>>),
     P(WHITE, "play", 500, FALSE, FALSE, <<Q(BLACK, 500)>>),
     \* --- 10..20: a check that mates in three listed before a mate in one
     P(BLACK, "play", 900, FALSE, FALSE, <<11, 13>>),
     P(WHITE, "play", 900, FALSE, FALSE, <<12>>),
     P(BLACK, "mate", 900, TRUE, FALSE, <<>>),
     P(WHITE, "play", 900, FALSE, FALSE, <<14, 15>>),
     P(BLACK, "play", 900, TRUE, FALSE, <<16, 17>>),
     P(BLACK, "mate", 900, TRUE, FALSE, <<>>),
     P(WHITE, "play", 900, FALSE, FALSE, <<18, 19>>),
     P(WHITE, "play", 900, FALSE, FALSE, <<20>>),
     P(BLACK, "mate", 900, TRUE, FALSE, <<>>),
     P(BLACK, "play", 900, FALSE, FALSE, <<Q(WHITE, 900)>>),
     P(BLACK, "mate", 900, TRUE, FALSE, <<>>),
     \* --- 21..26: White to move, one move lets Black mate
     P(WHITE, "play", -300, FALSE, FALSE, <<22, 23>>),
     P(BLACK, "play", -300, FALSE, FALSE, <<24, 25>>),
     P(BLACK, "play", -300, FALSE, FALSE, <<26>>),
     P(WHITE, "mate", -300, TRUE, FALSE, <<>>),
     P(WHITE, "play", -300, FALSE, FALSE, <<Q(BLACK, -300)>>),
     P(WHITE, "play", -300, FALSE, FALSE, <<Q(BLACK, -300)>>),
     \* --- 27..32: king and queen against king: stalemate, mate, lost queen
     P(WHITE, "play", 900, FALSE, FALSE, <<28, 29, 30>>),
     P(BLACK, "stale", 900, FALSE, FALSE, <<>>),
     P(BLACK, "play", 900, TRUE, FALSE, <<31, 32>>),
     P(BLACK, "mate", 900, TRUE, FALSE, <<>>),
     P(WHITE, "play", 900, FALSE, FALSE, <<Q(BLACK, 900)>>),
     P(WHITE, "draw", 0, FALSE, TRUE, <<53>>),
     \* --- 33..36: bishop takes the last pawn: insufficient material
     P(WHITE, "play", 200, FALSE, FALSE, <<34, 35>>),
     P(BLACK, "draw", 300, FALSE, TRUE, <<36>>),
     P(BLACK, "play", 200, FALSE, FALSE, <<Q(WHITE, 200)>>),
     P(WHITE, "draw", 300, FALSE, FALSE, <<55>>),
     \* --- 37..40: seventy-five-move draw reached with a mate in one on the board
     P(BLACK, "play", 0, FALSE, FALSE, <<38>>),
     P(WHITE, "draw", 0, FALSE, FALSE, <<39, 40>>),
     P(BLACK, "mate", 0, TRUE, FALSE, <<>>),
     P(BLACK, "draw", 0, FALSE, FALSE, <<38>>),
     \* --- 41..52: forced mate in three behind a quiet key move
     P(WHITE, "play", 0, FALSE, FALSE, <<42, 43, 44>>),
     P(BLACK, "play", 500, TRUE, TRUE, <<45>>),
     P(BLACK, "play", 0, FALSE, FALSE, <<46, 47>>),
     P(BLACK, "play", 0, TRUE, FALSE, <<48>>),
     P(WHITE, "play", 0, FALSE, TRUE, <<Q(BLACK, 0)>>),
     P(WHITE, "play", 0, FALSE, FALSE, <<49, 50>>),
     P(WHITE, "play", 0, FALSE, FALSE, <<51, 52>>),
     P(WHITE, "play", 0, FALSE, FALSE, <<Q(BLACK, 0)>>),
     P(BLACK, "mate", 0, TRUE, FALSE, <<>>),
     P(BLACK, "play", 0, FALSE, FALSE, <<Q(WHITE, 0)>>),
     P(BLACK, "play", 0, FALSE, FALSE, <<Q(WHITE, 0)>>),
     P(BLACK, "mate", 0, TRUE, FALSE, <<>>),
     \* --- 53..55: bare kings, and king and bishop against king, shuffling
     P(BLACK, "draw", 0, FALSE, FALSE, <<54>>),
     P(WHITE, "draw", 0, FALSE, FALSE, <<53>>),
     P(BLACK, "draw", 300, FALSE, FALSE, <<36>>),
     \* --- 56..61: a reply that loses a rook refutes the second move
     P(WHITE, "play", 0, FALSE, FALSE, <<57, 58>>),
     P(BLACK, "play", 0, FALSE, FALSE, <<59>>),
     P(BLACK, "play", 0, FALSE, FALSE, <<60, 61>>),
     P(WHITE, "play", 0, FALSE, FALSE, <<Q(BLACK, 0)>>),
     P(WHITE, "play", 0, FALSE, FALSE, <<Q(BLACK, 0)>>),
     P(WHITE, "play", -500, FALSE, TRUE, <<Q(BLACK, -500)>>),
     \* --- 62..66: a mate in one listed before a check that mates in three
     P(WHITE, "play", 900, FALSE, FALSE, <<63, 64>>),
     P(BLACK, "mate", 900, TRUE, FALSE, <<>>),
     P(BLACK, "play", 900, TRUE, FALSE, <<65>>),
     P(WHITE, "play", 900, FALSE, FALSE, <<66>>),
     P(BLACK, "mate", 900, TRUE, FALSE, <<>>)
  >>

NBase == Len(Base)

IsSink(p) == p >= SinkBase

SinkTurn(p) == IF (p - SinkBase) % 2 = 0 THEN WHITE ELSE BLACK

SinkMat(p) == (((p - SinkBase) \div 2) - MatOffset) * 100

\* A quiet position beyond the table: one quiet move to the same material
\* with the other side to move.
SinkAttr(p) == P(SinkTurn(p), "play", SinkMat(p), FALSE, FALSE, <<Q(~SinkTurn(p), SinkMat(p))>>)

\* The same position with colours swapped: table position p is mirrored as -p.
MirrorId(c) == IF IsSink(c) THEN Q(~SinkTurn(c), -SinkMat(c)) ELSE -c

MirrorAttr(a) == P(~a.turn, a.kind, -a.mat, a.chk, a.cap, [i \in 1..Len(a.kids) |-> MirrorId(a.kids[i])])

Attr(p) == IF IsSink(p) THEN SinkAttr(p) ELSE IF p > 0 THEN Base[p] ELSE MirrorAttr(Base[-p])

SinkMats == {0, 500, -500, 900, -900, 300, -300, 200, -200}

Positions == (1..NBase) \cup {-p : p \in 1..NBase} \cup {Q(t, m) : t \in BOOLEAN, m \in SinkMats}

-----------------------------------------------------------------------------
(* The board object: a starting position and the stack of moves applied.   *)

NewBoard(p) == [root |-> p, stack |-> <<>>]

Cur(b) == IF b.stack = <<>> THEN b.root ELSE b.stack[Len(b.stack)]

Push(b, m) == [b EXCEPT !.stack = Append(@, m)]

Pop(b) == [b EXCEPT !.stack = SubSeq(@, 1, Len(@) - 1)]

Turn(b) == Attr(Cur(b)).turn

IsCheckmate(b) == Attr(Cur(b)).kind = "mate"

IsStalemate(b) == Attr(Cur(b)).kind = "stale"

IsGameOver(b) == Attr(Cur(b)).kind # "play"

IsCheck(b) == Attr(Cur(b)).chk

IsCapture(b, m) == Attr(m).cap

LegalMoves(b) == Attr(Cur(b)).kids

Material(b) == Attr(Cur(b)).mat

-----------------------------------------------------------------------------
(* MateSolver *)

\* slip: the two mate signs exchanged
EvaluateSignsSwapped(b, depth) ==
  IF IsCheckmate(b)
  THEN IF Turn(b) = WHITE THEN MATE_SCORE - depth ELSE -MATE_SCORE + depth
  ELSE IF IsStalemate(b) THEN 0
  ELSE Material(b)

\* slip: the remaining depth added to the mate magnitude
EvaluateMateAdds(b, depth) ==
  IF IsCheckmate(b)
  THEN IF Turn(b) = WHITE THEN -MATE_SCORE - depth ELSE MATE_SCORE + depth
  ELSE IF IsStalemate(b) THEN 0
  ELSE Material(b)

EvaluatePosition(b, depth) ==
  IF IsCheckmate(b)
  THEN IF Turn(b) = WHITE THEN -MATE_SCORE + depth ELSE MATE_SCORE - depth
  ELSE IF IsStalemate(b) THEN 0
  ELSE Material(b)

\* score_move of ordered_moves, read on the board with the move applied
ScoreMove(pushed, m) ==
  (IF IsCheck(pushed) THEN CheckBonus ELSE 0) + (IF IsCapture(Pop(pushed), m) THEN CaptureBonus ELSE 0)

RECURSIVE InsertDesc(_, _)
InsertDesc(x, t) ==
  IF t = <<>> THEN <<x>>
  ELSE IF Head(t)[2] > x[2] THEN <<Head(t)>> \o InsertDesc(x, Tail(t))
  ELSE <<x>> \o t

RECURSIVE SortDesc(_)
SortDesc(s) == IF s = <<>> THEN <<>> ELSE InsertDesc(Head(s), SortDesc(Tail(s)))

\* moves.sort(key=score_move, reverse=True): stable, descending
SortMoves(moves, keys) ==
  LET s == SortDesc([i \in 1..Len(moves) |-> <<moves[i], keys[i]>>])
  IN [i \in 1..Len(moves) |-> s[i][1]]

\* slip: the budget test is left out
BudgetExceededNever(n, max) == FALSE

\* slip: the budget test lets one more invocation through
BudgetExceededLate(n, max) == n > max + 1

BudgetExceeded(n, max) == n > max

\* slip: the maximizer keeps the smaller score
ImprovesMaxFlipped(eval_score, max_eval) == eval_score < max_eval

ImprovesMax(eval_score, max_eval) == eval_score > max_eval

ImprovesMin(eval_score, min_eval) == eval_score < min_eval

MaxCutoff(max_eval, depth) == max_eval >= MATE_SCORE - depth

MinCutoff(min_eval, depth) == min_eval <= -MATE_SCORE + depth

Max(a, b) == IF a >= b THEN a ELSE b

Min(a, b) == IF a <= b THEN a ELSE b

RemainingDepth(sd, mn) == sd - mn

\* slip: get_mate_sequence keeps the counter it finds
ResetCounterMissing(n) == n

\* self.nodes_searched = 0 in get_mate_sequence
ResetCounter(n) == 0

\* slip: the move is left on the board
UndoSkipped(b) == b

\* board.pop() after the recursive call, and in score_move
Undo(b) == Pop(b)

\* slip: the chosen move is not applied to the working board
AdvanceSkipped(tb, move) == tb

\* temp_board.push(move) in get_mate_sequence
Advance(tb, move) == Push(tb, move)

\* ordered_moves as a function of the board
OrderedMoves(b) ==
  LET moves == LegalMoves(b)
  IN SortMoves(moves, [i \in 1..Len(moves) |-> ScoreMove(Push(b, moves[i]), moves[i])])

\* minimax_alpha_beta_search as a function of its arguments and of the node
\* counter n at the call; the result carries the counter at the return.
\* SearchLoop is the for loop from its i-th move on; cut tells whether the
\* early mate cutoff of this node is in place.
RECURSIVE Minimax(_, _, _, _, _), SearchLoop(_, _, _, _, _, _, _, _, _, _)
Minimax(b, depth, alpha, beta, n) ==
  IF BudgetExceeded(n + 1, MAX_NODES) \/ depth = 0 \/ IsGameOver(b)
  THEN [score |-> EvaluatePosition(b, depth), move |-> NoMove, nodes |-> n + 1]
  ELSE SearchLoop(b, depth, alpha, beta, OrderedMoves(b), 1,
                  IF Turn(b) = WHITE THEN -Inf ELSE Inf, NoMove, n + 1, TRUE)

SearchLoop(b, depth, alpha, beta, moves, i, best, best_move, n, cut) ==
  IF i > Len(moves) THEN [score |-> best, move |-> best_move, nodes |-> n]
  ELSE
    LET maximizing == Turn(b) = WHITE
        r == Minimax(Push(b, moves[i]), depth - 1, alpha, beta, n)
        improves == IF maximizing THEN ImprovesMax(r.score, best) ELSE ImprovesMin(r.score, best)
        nbest == IF improves THEN r.score ELSE best
        nmove == IF improves THEN moves[i] ELSE best_move
        cutoff == cut /\ improves /\ (IF maximizing THEN MaxCutoff(nbest, depth)
                                       ELSE MinCutoff(nbest, depth))
        nalpha == IF maximizing THEN Max(alpha, nbest) ELSE alpha
        nbeta == IF maximizing THEN beta ELSE Min(beta, nbest)
    IN IF cutoff \/ nbeta <= nalpha
       THEN [score |-> nbest, move |-> nmove, nodes |-> r.nodes]
       ELSE SearchLoop(b, depth, nalpha, nbeta, moves, i + 1, nbest, nmove, r.nodes, cut)

NoRet == [set |-> FALSE, score |-> 0, move |-> NoMove]

Ret(score, move) == [set |-> TRUE, score |-> score, move |-> move]

RefBoard == IF ref = "self" THEN board ELSE temp_board

Frame(depth, alpha, beta, b) ==
  [pc |-> "enter", depth |-> depth, alpha |-> alpha, beta |-> beta,
   maximizing |-> TRUE, moves |-> <<>>, keys |-> <<>>, i |-> 1,
   best |-> 0, best_move |-> NoMove, entry |-> b]

Top == stack[Len(stack)]

Caller == SubSeq(stack, 1, Len(stack) - 1)

EvalKind(b) == IF IsCheckmate(b) THEN "mate" ELSE IF IsStalemate(b) THEN "stalemate" ELSE "material"

EvalRecord(b, depth) ==
  [kind |-> EvalKind(b), side |-> Turn(b), ply |-> Len(b.stack) - call.base,
   depth |-> depth, score |-> EvaluatePosition(b, depth)]

SetRef(b) ==
  IF ref = "self" THEN board' = b /\ UNCHANGED temp_board
  ELSE temp_board' = b /\ UNCHANGED board

-----------------------------------------------------------------------------
(* State after MateSolver(fen) *)

\* what the previous get_mate_sequence call on this solver returned
NoPrev == [ran |-> FALSE, depth |-> 0, sequence |-> <<>>, mated |-> FALSE, nodes |-> 0]

Returned ==
  [ran |-> TRUE, depth |-> search_depth, sequence |-> sequence,
   mated |-> IsCheckmate(temp_board), nodes |-> nodes_searched]

\* invocations of minimax_alpha_beta_search since the current call from
\* outside began, and how many of them went on to the move loop
\* and the counter value the call found, left behind by whatever ran before
NoTally == [invoked |-> 0, expanded |-> 0, stale |-> 0]

StartTally == [invoked |-> 0, expanded |-> 0, stale |-> nodes_searched]

Windows == {<<-Inf, Inf>>, <<-100, 600>>}

Budgets == {0, SmallBudget}

Init ==
  /\ board \in {NewBoard(p) : p \in Positions}
  /\ temp_board = board
  /\ search_depth = DefaultSearchDepth
  /\ MAX_NODES = DefaultMaxNodes
  /\ nodes_searched = 0
  /\ mode = "idle"
  /\ ref = "self"
  /\ call = [depth |-> 0, alpha |-> -Inf, beta |-> Inf, base |-> 0, nodes |-> 0]
  /\ stack = <<>>
  /\ ret = NoRet
  /\ sequence = <<>>
  /\ move_num = 0
  /\ configured = {}
  /\ evals = {}
  /\ prev = NoPrev
  /\ tally = NoTally

\* set_search_depth(depth)
SetSearchDepth(d) ==
  /\ mode = "idle" \/ (mode = "done" /\ ~prev.ran)
  /\ "depth" \notin configured
  /\ d # search_depth
  /\ search_depth' = d
  /\ configured' = configured \cup {"depth"}
  /\ mode' = "idle"
  /\ prev' = IF mode = "done" THEN Returned ELSE prev
  /\ UNCHANGED <<board, temp_board, MAX_NODES, nodes_searched, ref, call,
                 stack, ret, sequence, move_num, evals, tally>>

\* solver.MAX_NODES = n
SetMaxNodes(n) ==
  /\ mode = "idle" /\ ~prev.ran
  /\ "nodes" \notin configured
  /\ MAX_NODES' = n
  /\ configured' = configured \cup {"nodes"}
  /\ UNCHANGED <<board, temp_board, search_depth, nodes_searched, mode, ref, call,
                 stack, ret, sequence, move_num, evals, prev, tally>>

\* solver.minimax_alpha_beta_search(solver.board, depth, alpha, beta), called from outside
\* after get_mate_sequence: the call with every argument left at its default
CallSearch(d, w) ==
  /\ \/ mode = "idle" /\ ~prev.ran
     \/ mode = "done" /\ ~prev.ran /\ d = search_depth /\ w = <<-Inf, Inf>>
  /\ prev' = IF mode = "done" THEN Returned ELSE prev
  /\ mode' = "search"
  /\ ref' = "self"
  /\ call' = [depth |-> d, alpha |-> w[1], beta |-> w[2], base |-> Len(board.stack),
              nodes |-> nodes_searched]
  /\ stack' = <<Frame(d, w[1], w[2], board)>>
  /\ ret' = NoRet
  /\ evals' = {}
  /\ tally' = StartTally
  /\ UNCHANGED <<board, temp_board, search_depth, MAX_NODES, nodes_searched,
                 sequence, move_num, configured>>

\* the return statements of minimax_alpha_beta_search
Return(score, move) ==
  /\ stack' = Caller
  /\ ret' = Ret(score, move)

\* minimax_alpha_beta_search, from its entry to the first move scored by ordered_moves
Enter ==
  /\ stack # <<>>
  /\ Top.pc = "enter"
  /\ LET b == RefBoard
         f == Top
         maximizing == Turn(b) = WHITE
         moves == LegalMoves(b)
     IN /\ nodes_searched' = nodes_searched + 1
        /\ IF BudgetExceeded(nodes_searched', MAX_NODES)
           THEN /\ Return(EvaluatePosition(b, f.depth), NoMove)
                /\ evals' = evals \cup {EvalRecord(b, f.depth)}
                /\ tally' = [tally EXCEPT !.invoked = @ + 1]
           ELSE IF f.depth = 0 \/ IsGameOver(b)
           THEN /\ Return(EvaluatePosition(b, f.depth), NoMove)
                /\ evals' = evals \cup {EvalRecord(b, f.depth)}
                /\ tally' = [tally EXCEPT !.invoked = @ + 1]
           ELSE IF moves = <<>>
           THEN /\ Return(IF maximizing THEN -Inf ELSE Inf, NoMove)
                /\ UNCHANGED evals
                /\ tally' = [tally EXCEPT !.invoked = @ + 1]
           ELSE /\ stack' = Caller \o <<[f EXCEPT !.pc = "order", !.maximizing = maximizing,
                                                   !.moves = moves, !.keys = <<>>, !.i = 1,
                                                   !.best = IF maximizing THEN -Inf ELSE Inf,
                                                   !.best_move = NoMove]>>
                /\ UNCHANGED <<ret, evals>>
                /\ tally' = [tally EXCEPT !.invoked = @ + 1, !.expanded = @ + 1]
  /\ UNCHANGED <<board, temp_board, search_depth, MAX_NODES, mode, ref, call,
                 sequence, move_num, configured, prev>>

\* score_move: board.push(move)
OrderPush ==
  /\ stack # <<>>
  /\ Top.pc = "order"
  /\ SetRef(Push(RefBoard, Top.moves[Top.i]))
  /\ stack' = Caller \o <<[Top EXCEPT !.pc = "score"]>>
  /\ UNCHANGED <<search_depth, MAX_NODES, nodes_searched, mode, ref, call, ret,
                 sequence, move_num, configured, evals, prev, tally>>

\* score_move: is_check, board.pop(), is_capture; after the last move, moves.sort
OrderPop ==
  /\ stack # <<>>
  /\ Top.pc = "score"
  /\ LET f == Top
         keys == Append(f.keys, ScoreMove(RefBoard, f.moves[f.i]))
     IN /\ SetRef(Undo(RefBoard))
        /\ IF f.i < Len(f.moves)
           THEN stack' = Caller \o <<[f EXCEPT !.pc = "order", !.keys = keys, !.i = f.i + 1]>>
           ELSE stack' = Caller \o <<[f EXCEPT !.pc = "loop", !.keys = keys, !.i = 1,
                                                !.moves = SortMoves(f.moves, keys)]>>
  /\ UNCHANGED <<search_depth, MAX_NODES, nodes_searched, mode, ref, call, ret,
                 sequence, move_num, configured, evals, prev, tally>>

\* the for loop: board.push(move) and the recursive call
LoopCall ==
  /\ stack # <<>>
  /\ Top.pc = "loop"
  /\ LET f == Top
         b == Push(RefBoard, f.moves[f.i])
     IN /\ SetRef(b)
        /\ stack' = Caller \o <<[f EXCEPT !.pc = "wait"], Frame(f.depth - 1, f.alpha, f.beta, b)>>
  /\ ret' = NoRet
  /\ UNCHANGED <<search_depth, MAX_NODES, nodes_searched, mode, ref, call,
                 sequence, move_num, configured, evals, prev, tally>>

\* the for loop after the recursive call returned: board.pop(), best score and
\* move, early mate cutoff, alpha or beta update, pruning break, loop end
LoopReturn ==
  /\ stack # <<>>
  /\ Top.pc = "wait"
  /\ ret.set
  /\ LET f == Top
         move == f.moves[f.i]
         eval_score == ret.score
         improves == IF f.maximizing THEN ImprovesMax(eval_score, f.best)
                     ELSE ImprovesMin(eval_score, f.best)
         best == IF improves THEN eval_score ELSE f.best
         best_move == IF improves THEN move ELSE f.best_move
         cutoff == improves /\ (IF f.maximizing THEN MaxCutoff(best, f.depth)
                                ELSE MinCutoff(best, f.depth))
         alpha == IF f.maximizing THEN Max(f.alpha, best) ELSE f.alpha
         beta == IF f.maximizing THEN f.beta ELSE Min(f.beta, best)
     IN /\ SetRef(Undo(RefBoard))
        /\ IF cutoff \/ beta <= alpha \/ f.i = Len(f.moves)
           THEN Return(best, best_move)
           ELSE /\ stack' = Caller \o <<[f EXCEPT !.pc = "loop", !.i = f.i + 1, !.best = best,
                                                   !.best_move = best_move, !.alpha = alpha,
                                                   !.beta = beta]>>
                /\ ret' = NoRet
  /\ UNCHANGED <<search_depth, MAX_NODES, nodes_searched, mode, ref, call,
                 sequence, move_num, configured, evals, prev, tally>>

\* get_mate_sequence up to its first search
CallGetMateSequence ==
  /\ \/ mode = "idle"
     \/ mode = "done" /\ ~prev.ran
     \/ mode = "search" /\ stack = <<>> /\ ret.set /\ prev.ran
  /\ prev' = IF mode = "done" THEN Returned ELSE prev
  /\ sequence' = <<>>
  /\ temp_board' = board
  /\ nodes_searched' = ResetCounter(nodes_searched)
  /\ move_num' = 0
  /\ ret' = NoRet
  /\ evals' = {}
  /\ ref' = "temp"
  /\ IF 0 < search_depth
     THEN /\ mode' = "driver"
          /\ call' = [depth |-> RemainingDepth(search_depth, 0), alpha |-> -Inf, beta |-> Inf,
                      base |-> Len(board.stack), nodes |-> nodes_searched']
          /\ stack' = <<Frame(RemainingDepth(search_depth, 0), -Inf, Inf, board)>>
     ELSE /\ mode' = "done"
          /\ UNCHANGED <<call, stack>>
  /\ configured' = configured \ {"depth"}
  /\ tally' = StartTally
  /\ UNCHANGED <<board, search_depth, MAX_NODES>>

\* get_mate_sequence from the return of a search to the next search or the return
DriverStep ==
  /\ mode = "driver"
  /\ stack = <<>>
  /\ ret.set
  /\ IF ret.move = NoMove
     THEN /\ mode' = "done"
          /\ UNCHANGED <<temp_board, sequence, move_num, call, stack, ret, evals>>
     ELSE LET tb == Advance(temp_board, ret.move)
          IN /\ sequence' = Append(sequence, ret.move)
             /\ temp_board' = tb
             /\ IF IsCheckmate(tb) \/ ~(move_num + 1 < search_depth)
                THEN /\ mode' = "done"
                     /\ UNCHANGED <<move_num, call, stack, ret, evals>>
                ELSE /\ mode' = "driver"
                     /\ move_num' = move_num + 1
                     /\ call' = [depth |-> RemainingDepth(search_depth, move_num'), alpha |-> -Inf,
                                 beta |-> Inf, base |-> Len(tb.stack), nodes |-> nodes_searched]
                     /\ stack' = <<Frame(RemainingDepth(search_depth, move_num'), -Inf, Inf, tb)>>
                     /\ ret' = NoRet
                     /\ evals' = {}
  /\ UNCHANGED <<board, search_depth, MAX_NODES, nodes_searched, ref, configured, prev, tally>>

Next ==
  \/ \E d \in 0..MaxDepth : SetSearchDepth(d)
  \/ \E n \in Budgets : SetMaxNodes(n)
  \/ \E d \in 0..MaxDepth, w \in Windows : CallSearch(d, w)
  \/ CallGetMateSequence
  \/ Enter
  \/ OrderPush
  \/ OrderPop
  \/ LoopCall
  \/ LoopReturn
  \/ DriverStep

Spec == Init /\ [][Next]_vars

\* a call runs to completion: the interpreter keeps executing it
Run == Enter \/ OrderPush \/ OrderPop \/ LoopCall \/ LoopReturn \/ DriverStep

FairSpec == Spec /\ WF_vars(Run)

TypeOK ==
  /\ mode \in {"idle", "search", "driver", "done"}
  /\ nodes_searched \in Nat
  /\ search_depth \in 0..(MaxDepth + 1)

-----------------------------------------------------------------------------
(* Vocabulary of the properties *)

Abs(x) == IF x < 0 THEN -x ELSE x

\* a call of minimax_alpha_beta_search made from outside has returned
SearchReturned == mode = "search" /\ stack = <<>> /\ ret.set

\* get_mate_sequence has returned
SequenceReturned == mode = "done"

WithinBudget == nodes_searched <= MAX_NODES

DefaultWindow == call.alpha = -Inf /\ call.beta = Inf

IsLegal(p, m) == \E i \in 1..Len(Attr(p).kids) : Attr(p).kids[i] = m

\* side s can force checkmate from position p within n plies against every
\* defence, the game ending where the rules engine says it is over
RECURSIVE ForcesMate(_, _, _)
ForcesMate(p, n, s) ==
  IF Attr(p).kind = "mate" THEN Attr(p).turn # s
  ELSE IF Attr(p).kind # "play" \/ n = 0 THEN FALSE
  ELSE IF Attr(p).turn = s
       THEN \E i \in 1..Len(Attr(p).kids) : ForcesMate(Attr(p).kids[i], n - 1, s)
       ELSE \A i \in 1..Len(Attr(p).kids) : ForcesMate(Attr(p).kids[i], n - 1, s)

StartSide == Attr(board.root).turn

-----------------------------------------------------------------------------
(* C1: if the side to move in the starting position can force checkmate     *)
(* within search_depth plies against every defence and the node budget is   *)
(* never exceeded, get_mate_sequence returns a non-empty sequence whose     *)
(* last move leaves the working position in checkmate, the opponent of the  *)
(* starting side being the side mated.                                      *)
C1_ForcedMateIsFound ==
  (SequenceReturned /\ WithinBudget /\ ForcesMate(board.root, search_depth, StartSide))
    => /\ sequence # <<>>
       /\ temp_board = [root |-> board.root, stack |-> sequence]
       /\ IsCheckmate(temp_board)
       /\ Turn(temp_board) # StartSide

C1_Witness ==
  /\ SequenceReturned /\ WithinBudget
  /\ ForcesMate(board.root, search_depth, StartSide)
  /\ ~ForcesMate(board.root, 2, StartSide)
  /\ Len(sequence) = 3
  /\ IsCheckmate(temp_board)

(* C2: when an invocation of minimax_alpha_beta_search returns, on any exit *)
(* path, the board it was given (root, move stack, hence pieces and side to *)
(* move) is what it was when the invocation was entered.                    *)
C2_BoardRestoredOnReturn ==
  [][Len(stack') < Len(stack) => RefBoard' = Top.entry]_vars

C2_Witness ==
  /\ SearchReturned
  /\ call.depth >= 3
  /\ ~DefaultWindow
  /\ ret.move # NoMove
  /\ ret.score >= MATE_SCORE - call.depth
  /\ board = NewBoard(board.root)

(* C3: get_mate_sequence returns at most search_depth moves, each a legal   *)
(* move of the position reached by the moves before it, and no move but the *)
(* last leaves the position in checkmate.                                   *)
C3_SequenceIsLegalLine ==
  SequenceReturned =>
    /\ Len(sequence) <= search_depth
    /\ \A i \in 1..Len(sequence) :
         /\ IsLegal(IF i = 1 THEN board.root ELSE sequence[i - 1], sequence[i])
         /\ (i < Len(sequence) => Attr(sequence[i]).kind # "mate")

C3_Witness ==
  /\ SequenceReturned
  /\ search_depth >= 3
  /\ Len(sequence) = search_depth
  /\ ~IsCheckmate(temp_board)

(* C4 as stated: if get_mate_sequence with search_depth N returned a        *)
(* sequence ending in checkmate, then with a larger search_depth on the     *)
(* same starting position it returns exactly the same sequence, the node    *)
(* budget being exceeded in neither run.                                    *)
C4_LargerBudgetSameSequence ==
  (/\ SequenceReturned /\ prev.ran
   /\ prev.depth < search_depth
   /\ prev.sequence # <<>> /\ prev.mated
   /\ prev.nodes <= MAX_NODES /\ WithinBudget)
    => sequence = prev.sequence

(* C5 as stated: for every White-to-move position with a legal move that    *)
(* delivers checkmate, a search at depth 2 with the default window and the  *)
(* node budget not exceeded returns a mating move and the score             *)
(* MATE_SCORE - 1.                                                          *)
HasMateInOne(b) == \E i \in 1..Len(LegalMoves(b)) : Attr(LegalMoves(b)[i]).kind = "mate"

ReturnsMateInOne ==
  /\ ret.move # NoMove
  /\ IsLegal(Cur(board), ret.move)
  /\ Attr(ret.move).kind = "mate"
  /\ ret.score = MATE_SCORE - 1

C5_MateInOneAtDepthTwo_Stated ==
  (/\ SearchReturned /\ call.depth = 2 /\ DefaultWindow /\ WithinBudget
   /\ Turn(board) = WHITE /\ HasMateInOne(board))
    => ReturnsMateInOne

(* C5 amended: the same, for positions that the rules engine does not       *)
(* report as game over.                                                     *)
C5_MateInOneAtDepthTwo ==
  (/\ SearchReturned /\ call.depth = 2 /\ DefaultWindow /\ WithinBudget
   /\ Turn(board) = WHITE /\ HasMateInOne(board) /\ ~IsGameOver(board))
    => ReturnsMateInOne

C5_Witness ==
  /\ SearchReturned /\ call.depth = 2 /\ DefaultWindow /\ WithinBudget
  /\ Turn(board) = WHITE /\ HasMateInOne(board) /\ ~IsGameOver(board)
  /\ Attr(LegalMoves(board)[1]).kind # "mate"
  /\ ReturnsMateInOne

(* C6 as stated: within one search, a checkmate evaluated fewer plies from  *)
(* the root gets a score of strictly greater magnitude than a checkmate of  *)
(* the same side evaluated more plies from the root.                        *)
C6_FasterMateScoresHigher ==
  \A e1 \in evals, e2 \in evals :
    (/\ e1.kind = "mate" /\ e2.kind = "mate"
     /\ e1.side = e2.side
     /\ e1.ply < e2.ply)
      => Abs(e1.score) > Abs(e2.score)

(* C7 as stated: every score of evaluate_position and of                    *)
(* minimax_alpha_beta_search is strictly below MATE_SCORE in absolute       *)
(* value, and material scores are below every mate score.                   *)
MaterialBelowMate ==
  \A e1 \in evals, e2 \in evals :
    (e1.kind # "mate" /\ e2.kind = "mate") => Abs(e1.score) < Abs(e2.score)

C7_ScoresBelowMate_Stated ==
  /\ \A e \in evals : Abs(e.score) < MATE_SCORE
  /\ ret.set => Abs(ret.score) < MATE_SCORE
  /\ MaterialBelowMate

(* C7 amended: every such score is at most MATE_SCORE in absolute value;    *)
(* evaluate_position reaches MATE_SCORE exactly for a checkmate evaluated   *)
(* at remaining depth 0, and a search returns it only from such a leaf;     *)
(* material scores are below every mate score.                              *)
C7_ScoresAtMostMate ==
  /\ \A e \in evals :
       /\ Abs(e.score) <= MATE_SCORE
       /\ Abs(e.score) = MATE_SCORE <=> (e.kind = "mate" /\ e.depth = 0)
  /\ ret.set =>
       /\ Abs(ret.score) <= MATE_SCORE
       /\ Abs(ret.score) = MATE_SCORE =>
            \E e \in evals : e.kind = "mate" /\ e.depth = 0 /\ e.score = ret.score
  /\ MaterialBelowMate

C7_Witness ==
  /\ SearchReturned /\ call.depth >= 2
  /\ \E e \in evals : e.kind = "mate" /\ e.depth > 0
  /\ \E e \in evals : e.kind = "mate" /\ e.depth = 0
  /\ \E e \in evals : e.kind = "material" /\ e.score # 0
  /\ Abs(ret.score) < MATE_SCORE

(* C8 as stated: called on a position the rules engine reports as game      *)
(* over, the search returns no move and -MATE_SCORE + depth when White is   *)
(* mated, MATE_SCORE - depth when Black is mated, and 0 for stalemate and   *)
(* every other drawn terminal state.                                        *)
TerminalScore(b, depth) ==
  IF IsCheckmate(b)
  THEN IF Turn(b) = WHITE THEN -MATE_SCORE + depth ELSE MATE_SCORE - depth
  ELSE 0

C8_TerminalScore ==
  (SearchReturned /\ IsGameOver(board))
    => (ret.move = NoMove /\ ret.score = TerminalScore(board, call.depth))

(* C9 as stated: when the node counter exceeds MAX_NODES at any invocation  *)
(* inside a top-level search, that search returns no move.                  *)
C9_ExhaustedBudgetNoMove ==
  (SearchReturned /\ ~WithinBudget) => ret.move = NoMove

(* C10: every invocation first adds exactly one to the node counter; if the *)
(* counter then exceeds MAX_NODES the invocation returns                    *)
(* (evaluate_position(board, depth), None) without applying a move or       *)
(* recursing; with MAX_NODES = 0 a search returns that after exactly one    *)
(* invocation.                                                              *)
AtEntry == stack # <<>> /\ Top.pc = "enter"

C10_BudgetBreaker ==
  /\ [][AtEntry =>
          /\ nodes_searched' = nodes_searched + 1
          /\ nodes_searched' > MAX_NODES =>
               /\ ret' = Ret(EvaluatePosition(RefBoard, Top.depth), NoMove)
               /\ stack' = Caller
               /\ board' = board /\ temp_board' = temp_board]_vars
  /\ []((SearchReturned /\ MAX_NODES = 0) =>
          /\ nodes_searched = call.nodes + 1
          /\ ret = Ret(EvaluatePosition(board, call.depth), NoMove)
          /\ board = NewBoard(board.root))

C10_Witness ==
  /\ SearchReturned /\ MAX_NODES = 0
  /\ call.depth > 0 /\ ~IsGameOver(board)
  /\ nodes_searched = 1
  /\ ret.move = NoMove

-----------------------------------------------------------------------------
(* C11 as stated: when the early mate cutoff fires at a node, no sibling    *)
(* still unexamined could have returned a strictly better score for the     *)
(* side to move, and the score returned equals the score the node returns   *)
(* with the cutoff removed.                                                 *)

\* the child of a waiting node has returned a score that makes the cutoff fire
CutoffFires ==
  /\ stack # <<>> /\ Top.pc = "wait" /\ ret.set
  /\ IF Top.maximizing
     THEN ImprovesMax(ret.score, Top.best) /\ MaxCutoff(ret.score, Top.depth)
     ELSE ImprovesMin(ret.score, Top.best) /\ MinCutoff(ret.score, Top.depth)

\* what the sibling moves[j] returns when it is searched next
SiblingScore(j) ==
  LET f == Top
  IN Minimax(Push(f.entry, f.moves[j]), f.depth - 1,
             IF f.maximizing THEN Max(f.alpha, ret.score) ELSE f.alpha,
             IF f.maximizing THEN f.beta ELSE Min(f.beta, ret.score),
             nodes_searched).score

\* what the node returns when its loop goes on instead of cutting off
ScoreWithoutCutoff ==
  LET f == Top
      alpha == IF f.maximizing THEN Max(f.alpha, ret.score) ELSE f.alpha
      beta == IF f.maximizing THEN f.beta ELSE Min(f.beta, ret.score)
  IN IF beta <= alpha THEN ret.score
     ELSE SearchLoop(f.entry, f.depth, alpha, beta, f.moves, f.i + 1, ret.score,
                     f.moves[f.i], nodes_searched, FALSE).score

C11_CutoffLosesNothing ==
  CutoffFires =>
    /\ \A j \in (Top.i + 1)..Len(Top.moves) :
         IF Top.maximizing THEN SiblingScore(j) <= ret.score
         ELSE SiblingScore(j) >= ret.score
    /\ ScoreWithoutCutoff = ret.score

-----------------------------------------------------------------------------
(* C12: every invocation of minimax_alpha_beta_search eventually returns;   *)
(* the recursive invocations nested under a top-level call never number     *)
(* more than its depth (at most search_depth inside get_mate_sequence); and *)
(* within one get_mate_sequence attempt at most MAX_NODES invocations go on *)
(* to apply moves and recurse.                                              *)
NestingBounded ==
  /\ Len(stack) <= call.depth + 1
  /\ \A k \in 1..Len(stack) : stack[k].depth = call.depth - (k - 1) /\ stack[k].depth >= 0
  /\ mode = "driver" => call.depth <= search_depth

ExpansionsBounded ==
  mode \in {"driver", "done"} => tally.expanded <= MAX_NODES

C12_TerminatesWithinBounds ==
  /\ (stack # <<>>) ~> (stack = <<>>)
  /\ [](NestingBounded /\ ExpansionsBounded)

C12_Witness ==
  /\ SequenceReturned
  /\ MAX_NODES = SmallBudget
  /\ tally.expanded = MAX_NODES
  /\ nodes_searched > MAX_NODES
  /\ sequence # <<>>

-----------------------------------------------------------------------------
(* C13: get_mate_sequence sets the node counter to 0 once, before its first *)
(* search, and never between its iterations: throughout the attempt the     *)
(* counter is the number of search invocations made since the attempt began *)
(* and it never goes down; the sequence returned (and the final counter) is *)
(* the same whatever counter value an earlier attempt or search left.       *)
InAttempt == mode \in {"driver", "done"}

C13_CounterSharedAndReset ==
  /\ [](InAttempt => nodes_searched = tally.invoked)
  /\ [][mode = "driver" => nodes_searched' \in {nodes_searched, nodes_searched + 1}]_vars
  /\ []((SequenceReturned /\ prev.ran /\ prev.depth = search_depth)
          => (sequence = prev.sequence /\ nodes_searched = prev.nodes))

C13_Witness ==
  /\ SequenceReturned /\ prev.ran /\ prev.depth = search_depth
  /\ MAX_NODES = SmallBudget
  /\ tally.stale > MAX_NODES
  /\ move_num >= 1
  /\ call.nodes \in 1..MAX_NODES
  /\ nodes_searched > MAX_NODES

====
